---- MODULE Spec2Model ----
(***************************************************************************)
(* Model of src/index.js: the PaymentQueue (in-memory FIFO, active-drain   *)
(* flag, drain loop, Job Store table "queue") and the slash-command        *)
(* handlers that read and write the ledger table "users".                  *)
(*                                                                         *)
(* Node.js runs one callback at a time: every action below is the code     *)
(* that runs between two awaits.  Money amounts are integers counted in    *)
(* thousandths of a real, so that a value can have a third fraction digit  *)
(* for truncateDollar to cut.                                              *)
(***************************************************************************)
EXTENDS Integers, Sequences, FiniteSets, TLC

\* ------------------------------------------------------------------ bounds
\* Number of command invocations (and so of queue items) in one behaviour.
MaxReqs == 2
\* Number of activations of process() the model can hold at one time.
MaxLoops == 2
\* Number of times the process is stopped and started again.
MaxRestarts == 1

Req == 1..MaxReqs
LoopId == 1..MaxLoops
NoItem == 0

Holders == {"u1", "u2"}
\* Amount options a command can be given: a text that is no number, a
\* negative amount, zero, and 0.015, an amount with a third fraction digit.
AmountTexts == {"abc", "-0.015", "0", "0.015"}
\* Balance of the holder the users table has a row for when the bot starts
\* (0.02); the other holder has no row.
InitialDollars == {20}
\* item.type of the items SubmitItem builds: one that processItem knows, one it
\* does not.
ItemTypes == {"card_to_id", "unknown"}

VARIABLES
    req,           \* [Req -> the command invocation: its handler's locals and position]
    queue,         \* PaymentQueue.queue: the in-memory FIFO (of Req)
    isProcessing,  \* PaymentQueue.isProcessing: the active-drain flag
    loop,          \* [LoopId -> an activation of process(): position and item]
    cont,          \* [Req -> position of the item's running continuation]
    queueTable,    \* rows of the table "queue" (the Job Store), in insertion order
    users,         \* rows of the table "users" (the ledger), by holder
    submitted,     \* history: items in the order add() pushed them
    calls,         \* history: items in the order axios.post was issued for them
    statusLog,     \* history: [Req -> statuses the drain loop wrote for the item]
    contLog,       \* history: [Req -> continuations invoked for the item]
    outcome,       \* history: [Req -> what the settlement call returned]
    response,      \* history: [Req -> the response axios.post got for the item]
    delayLog,      \* history: items whose setTimeout of line 216 has fired
    drains,        \* history: number of activations of process() that reached line 219
    codec,         \* the amount function applied last, its argument and its result
    boot,          \* history: restarts so far, and calls and open jobs at the last one
    expected       \* history: [Holders -> balance the succeeded operations add up to]

vars == <<req, queue, isProcessing, loop, cont, queueTable, users,
          submitted, calls, statusLog, contLog, outcome, response,
          delayLog, drains, codec, boot, expected>>

histVars == <<calls, statusLog, contLog, outcome, response, delayLog, drains>>

Range(seq) == {seq[i] : i \in DOMAIN seq}
Last(seq) == seq[Len(seq)]

\* ----------------------------------------------------------- amount codec
\* The amounts, in thousandths, whose double times 100 is a double below the
\* whole number of cents: 0.29 * 100 is 28.999999999999996.  The list is
\* complete for the amounts up to 1.10 and holds none of 10, 10.001, 10.999.
ShortProducts == {290, 570, 580}

\* Math.floor(num * 100) / 100 on an amount counted in thousandths.
truncateDollar(amount) ==
    IF amount \in ShortProducts THEN (amount \div 10) * 10 - 10
                                ELSE (amount \div 10) * 10

\* The operand pairs, in thousandths, whose difference as IEEE-754 doubles
\* lies below the decimal difference far enough for the product with 100 to
\* stay below the whole number of cents: 0.03 - 0.01 is 0.019999999999999997
\* and that times 100 is 1.9999999999999998.  Among balances from 0 to 0.08
\* and the amounts 0.01 and 0.015 this is the only such pair; the sums
\* balance + 0.01 and balance + 0.015 are the nearest doubles up to 0.05.
ShortDifferences == {<<30, 10>>}

\* a - b of two doubles: a double below the decimal difference is held as the
\* thousandth below it, which truncateDollar cuts to the cent the code gets.
Minus(a, b) == IF <<a, b>> \in ShortDifferences THEN a - b - 1 ELSE a - b

\* ------------------------------------------------------------- coin codec
\* A number given to formatCoinAmount: NaN, Infinity, a double of 1e21 or
\* more (1e21 stands for them), or a non-negative decimal held as its whole
\* part and the sequence of its fraction digits.
Dec(w, f) == [kind |-> "finite", whole |-> w, frac |-> f]
NaN == [kind |-> "NaN", whole |-> 0, frac |-> <<>>]
Infinity == [kind |-> "Infinity", whole |-> 0, frac |-> <<>>]
Big == [kind |-> "1e21", whole |-> 0, frac |-> <<>>]

\* The numbers the codec is applied to: whole parts with one and two digits,
\* fractions with fewer than 8, with 8 and with 9 digits, among them ninth
\* digits below, at and above 5 and a fraction that carries into the whole.
CoinWholes == {0, 1, 5, 10}
CoinFracs ==
    { <<>>, <<5>>, <<1, 0, 0, 0, 0, 0, 0, 0>>, <<0, 0, 0, 0, 0, 0, 0, 1>>,
      <<1, 2, 3, 4, 5, 6, 7, 8, 9>>, <<0, 0, 0, 0, 0, 0, 0, 0, 9>>,
      <<0, 0, 0, 0, 0, 0, 0, 0, 5>>, <<0, 0, 0, 0, 0, 0, 0, 0, 4>>,
      <<9, 9, 9, 9, 9, 9, 9, 9, 5>>, <<0, 0, 1, 9, 5, 3, 1, 2, 5>>,
      <<0, 0, 0, 0, 0, 0, 0, 1, 5>> }
CoinInputs == {Dec(w, f) : w \in CoinWholes, f \in CoinFracs} \cup {NaN, Infinity, Big}

\* The members of CoinInputs with a ninth digit 5 and nothing after it whose
\* double lies below the decimal: 0.000000015 is the double
\* 0.0000000149999999999999996..., which toFixed(8) renders "0.00000001".
\* The other such members are doubles at or above the decimal.
ShortTies ==
    { Dec(0, <<0, 0, 0, 0, 0, 0, 0, 1, 5>>), Dec(1, <<0, 0, 0, 0, 0, 0, 0, 0, 5>>),
      Dec(1, <<0, 0, 0, 0, 0, 0, 0, 1, 5>>), Dec(5, <<9, 9, 9, 9, 9, 9, 9, 9, 5>>),
      Dec(10, <<9, 9, 9, 9, 9, 9, 9, 9, 5>>), Dec(10, <<0, 0, 0, 0, 0, 0, 0, 1, 5>>) }

\* Texts are sequences of characters.
DigitChars == <<"0", "1", "2", "3", "4", "5", "6", "7", "8", "9">>
DigitChar(d) == DigitChars[d + 1]
DigitOf(c) == CHOOSE d \in 0..9 : DigitChar(d) = c

RECURSIVE IntText(_)
IntText(n) == IF n < 10 THEN <<DigitChar(n)>>
                        ELSE Append(IntText(n \div 10), DigitChar(n % 10))

RECURSIVE DigitsValue(_)
DigitsValue(ds) == IF ds = <<>> THEN 0
                   ELSE DigitsValue(SubSeq(ds, 1, Len(ds) - 1)) * 10 + Last(ds)

DigitAt(f, i) == IF i <= Len(f) THEN f[i] ELSE 0

\* toFixed always rounds up, for comparison.
RoundsAlways(x) == TRUE

\* Number.prototype.toFixed picks the multiple of 1e-8 nearest to the double
\* and the larger one of two equally near: up from the ninth digit 5 on,
\* except where the double lies below the decimal.
RoundsUp(x) ==
    \/ DigitAt(x.frac, 9) > 5
    \/ /\ DigitAt(x.frac, 9) = 5
       /\ \/ \E i \in 10..Len(x.frac) : x.frac[i] # 0
          \/ x \notin ShortTies

\* num.toFixed(8): "Infinity" and the exponent form of 1e21 and more come
\* back as String(num); any other number gets exactly 8 fraction digits.
toFixed(x) ==
    CASE x.kind = "NaN" -> <<"N", "a", "N">>
      [] x.kind = "Infinity" -> <<"I", "n", "f", "i", "n", "i", "t", "y">>
      [] x.kind = "1e21" -> <<"1", "e", "+", "2", "1">>
      [] OTHER ->
           LET n == DigitsValue([i \in 1..8 |-> DigitAt(x.frac, i)])
                      + (IF RoundsUp(x) THEN 1 ELSE 0)
               whole == x.whole + n \div 10^8
               frac == n % 10^8
           IN  IntText(whole) \o <<".">>
                  \o [i \in 1..8 |-> DigitChar((frac \div 10^(8 - i)) % 10)]

\* The trailing zeros are kept, for comparison.
ZerosKept(text) == text

\* formatted.replace(/0+$/, ''), line 308.
RECURSIVE StripZeros(_)
StripZeros(text) ==
    IF text # <<>> /\ Last(text) = "0"
      THEN StripZeros(SubSeq(text, 1, Len(text) - 1))
      ELSE text

\* .replace(/\.$/, ''), line 308.
StripDot(text) ==
    IF text # <<>> /\ Last(text) = "." THEN SubSeq(text, 1, Len(text) - 1) ELSE text

\* formatCoinAmount, lines 297-312.
formatCoinAmount(amount) ==
    IF amount.kind = "NaN"
      THEN <<"0", ".", "0", "0", "0", "0", "0", "0", "0", "0">>
      ELSE LET formatted == toFixed(amount) IN
           IF "." \in Range(formatted) THEN StripDot(StripZeros(formatted))
                                       ELSE formatted

\* Number(text) of a text formatCoinAmount has produced.
Number(text) ==
    CASE text = <<"I", "n", "f", "i", "n", "i", "t", "y">> -> Infinity
      [] "e" \in Range(text) -> Big
      [] OTHER ->
           LET dot == IF "." \in Range(text)
                        THEN CHOOSE i \in DOMAIN text : text[i] = "."
                        ELSE Len(text) + 1
           IN  Dec(DigitsValue([i \in 1..(dot - 1) |-> DigitOf(text[i])]),
                   [i \in 1..(Len(text) - dot) |-> DigitOf(text[dot + i])])

\* dollarAmount * 0.00000001 (lines 1101, 1192) of a fiat amount in
\* thousandths, below 1000000.000: the digits of the amount moved 11 places
\* to the right.  The double products of FiatExchanged round as these
\* decimals do.
CoinAmount(dollarAmount) ==
    Dec(0, [i \in 1..11 |-> IF i <= 2 THEN 0 ELSE (dollarAmount \div 10^(11 - i)) % 10])

\* Fiat amounts, in thousandths, given to truncateDollar: with and without a
\* third fraction digit, 10.001 and 10.999, and 0.29, 0.57, 0.58.
FiatInputs == {0, 15, 20, 290, 300, 570, 580, 1000, 10000, 10001, 10999}

\* Fiat amounts, in thousandths, of exchange requests: 0.015, 0.5, 0.9, 10.
FiatExchanged == {15, 500, 900, 10000}

IdleCodec == [fn |-> "none", arg |-> Dec(0, <<>>), fiat |-> 0, cents |-> 0,
              text |-> <<>>, again |-> <<>>]

\* parseFloat(amountStr), in thousandths; isNaN tells the texts it reads as
\* NaN, for which the number below is never used.
isNaN(text) == text \notin {"-0.015", "0", "0.015"}
parseFloat(text) ==
    CASE text = "-0.015" -> -15
      [] text = "0" -> 0
      [] text = "0.015" -> 15
      [] OTHER -> 0

\* isNaN(amount) || amount <= 0 : the refusal every money handler but set
\* starts with.
AmountAccepted(text) == FALSE
InvalidAmount(text) == isNaN(text) \/ parseFloat(text) <= 0

\* isNaN(amount) || amount < 0 : the refusal of /adm set (line 1758).
InvalidSetAmount(text) == isNaN(text) \/ parseFloat(text) < 0

\* currentDollars < dollarAmount : the sufficiency check of pay, take, deposit.
InsufficientDollarsSkipped(currentDollars, dollarAmount) == FALSE
InsufficientDollars(currentDollars, dollarAmount) == currentDollars < dollarAmount

\* ------------------------------------------------------------- the ledger
Absent == [present |-> FALSE, dollars |-> 0, card |-> FALSE]

\* userData?.dollars || 0
DollarsOf(row) == IF row.present THEN row.dollars ELSE 0

\* UPDATE users SET dollars = ? WHERE user_id = ? AND guild_id = ?
\* (changes no row when the holder has none)
UpdateDollars(table, h, v) ==
    IF table[h].present THEN [table EXCEPT ![h].dollars = v] ELSE table

\* INSERT INTO users (...) VALUES (?, ?, v) ON CONFLICT DO UPDATE SET dollars = dollars + v
UpsertAddDollars(table, h, v) ==
    IF table[h].present
      THEN [table EXCEPT ![h].dollars = @ + v]
      ELSE [table EXCEPT ![h] = [present |-> TRUE, dollars |-> v, card |-> FALSE]]

\* INSERT INTO users (...) VALUES (?, ?, v) ON CONFLICT DO UPDATE SET dollars = v
UpsertSetDollars(table, h, v) ==
    IF table[h].present
      THEN [table EXCEPT ![h].dollars = v]
      ELSE [table EXCEPT ![h] = [present |-> TRUE, dollars |-> v, card |-> FALSE]]

\* INSERT INTO users (user_id, guild_id, card_id, dollars) VALUES (?, ?, ?, 0)
\* ON CONFLICT DO UPDATE SET card_id = ?
UpsertReplacesRow(table, h) ==
    [table EXCEPT ![h] = [present |-> TRUE, dollars |-> 0, card |-> TRUE]]
UpsertSetCard(table, h) ==
    IF table[h].present
      THEN [table EXCEPT ![h].card = TRUE]
      ELSE [table EXCEPT ![h] = [present |-> TRUE, dollars |-> 0, card |-> TRUE]]

\* ---------------------------------------------------------- the Job Store
\* id INTEGER PRIMARY KEY AUTOINCREMENT: the n-th inserted row has id n.
RowId(n) == <<"rowid", n>>
\* item.id = crypto.randomUUID(): a text that is no integer.
ItemId(r) == <<"uuid", r>>

\* INSERT INTO queue (guild_id, user_id, type, payload, status) VALUES (..., 'pending')
InsertJob(table, r) ==
    Append(table, [id |-> RowId(Len(table) + 1), job |-> r,
                   status |-> "pending", processed_at |-> FALSE])

\* UPDATE queue SET status = ? [, processed_at = CURRENT_TIMESTAMP] WHERE id = ?
UpdateJob(table, id, status, stamp) ==
    [n \in DOMAIN table |->
        IF table[n].id = id
          THEN [table[n] EXCEPT !.status = status,
                                !.processed_at = (@ \/ stamp)]
          ELSE table[n]]

\* -------------------------------------------------------------- requests
IdleReq == [cmd |-> "none", pc |-> "idle", user |-> "-", target |-> "-",
            text |-> "-", amount |-> 0, lookup |-> "-", current |-> 0, type |-> "-", onError |-> FALSE]

IdleLoop == [pc |-> "idle", item |-> NoItem]

\* Requests are numbered in the order they arrive.
CanStart(r) ==
    /\ req[r].cmd = "none"
    /\ IF r = 1 THEN TRUE ELSE req[r - 1].cmd # "none"

Init ==
    /\ req = [r \in Req |-> IdleReq]
    /\ queue = <<>>
    /\ isProcessing = FALSE
    /\ loop = [l \in LoopId |-> IdleLoop]
    /\ cont = [r \in Req |-> "none"]
    /\ queueTable = <<>>
    /\ \E d \in InitialDollars :
          users = [h \in Holders |->
                     IF h = "u1" THEN [present |-> TRUE, dollars |-> d, card |-> TRUE]
                                 ELSE Absent]
    /\ submitted = <<>>
    /\ calls = <<>>
    /\ statusLog = [r \in Req |-> <<>>]
    /\ contLog = [r \in Req |-> <<>>]
    /\ outcome = [r \in Req |-> "none"]
    /\ response = [r \in Req |-> "none"]
    /\ delayLog = <<>>
    /\ drains = 0
    /\ codec = IdleCodec
    /\ boot = [n |-> 0, calls |-> 0, jobs |-> {}]
    /\ expected = [h \in Holders |-> DollarsOf(users[h])]

\* ------------------------------------------------------ PaymentQueue.add
\* add(), lines 153-159: the item is pushed, then the INSERT is awaited.
Push(r) ==
    /\ queue' = Append(queue, r)
    /\ submitted' = Append(submitted, r)

\* this.isProcessing = true (line 176)
SetProcessingForgotten == isProcessing
SetProcessing == TRUE

\* process() from its call to its first await (lines 174-186): nothing when a
\* drain is active or the FIFO is empty; else the flag is set, the head is
\* popped and its UPDATE to 'processing' is issued.
FreeLoops == {l \in LoopId : loop[l].pc = "idle"}

\* const item = this.queue.shift() (line 179): the FIFO without its head.
NotShifted == queue
Shifted == Tail(queue)
ProcessNeverStarts == TRUE
ProcessReturnsAtOnce == isProcessing \/ Len(queue) = 0

process ==
    IF ProcessReturnsAtOnce
      THEN UNCHANGED <<isProcessing, queue, loop>>
      ELSE /\ FreeLoops # {}
           /\ isProcessing' = SetProcessing
           /\ queue' = Shifted
           /\ loop' = [loop EXCEPT ![CHOOSE l \in FreeLoops : TRUE] =
                          [pc |-> "markProcessing", item |-> Head(queue)]]

\* add(), lines 159-167, the INSERT has succeeded: process() is called when no
\* drain is active, and the id is returned.
AddReturns(r) ==
    /\ req[r].pc = "inserting"
    /\ queueTable' = InsertJob(queueTable, r)
    /\ IF ~isProcessing THEN process ELSE UNCHANGED <<isProcessing, queue, loop>>
    /\ req' = [req EXCEPT ![r].pc = "added"]
    /\ UNCHANGED <<cont, users, submitted, expected>>
    /\ UNCHANGED histVars
    /\ UNCHANGED <<codec, boot>>

\* add(), line 159, the INSERT is rejected: add() throws with the item left in
\* the FIFO; the handler's catch replies with an error.
AddThrows(r) ==
    /\ req[r].pc = "inserting"
    /\ req' = [req EXCEPT ![r].pc = "addThrew"]
    /\ UNCHANGED <<queue, isProcessing, loop, cont, queueTable, users, submitted, expected>>
    /\ UNCHANGED histVars
    /\ UNCHANGED <<codec, boot>>

\* -------------------------------------------------- PaymentQueue.process
KnownType(type) == type \in {"card_to_id", "card_to_card"}

LoopAt(l, where) == loop[l].pc = where
GoTo(l, where) == loop' = [loop EXCEPT ![l].pc = where]
Wrote(r, status) == statusLog' = [statusLog EXCEPT ![r] = Append(@, status)]

\* First position of the onSuccess continuation an item carries: the deposit
\* and withdraw continuations start with their UPDATE users, the others
\* (payserver, server pay, fine) with the reply.
OnSuccessEntry(r) ==
    IF req[r].cmd \in {"deposit", "withdraw"} THEN "ledger" ELSE "reply"

\* await item.onSuccess(result) / await item.onError(error): the loop goes on
\* when the continuation's promise has settled.
NotAwaited(r) == TRUE
Awaited(r) == cont[r] \in {"returned", "threw"}

\* Lines 183-189: the UPDATE to 'processing' has succeeded; processItem
\* dispatches on item.type, issuing the axios.post of a known type and
\* throwing for any other (lines 228-235).
MarkProcessingDone(l) ==
    LET r == loop[l].item IN
    /\ LoopAt(l, "markProcessing")
    /\ queueTable' = UpdateJob(queueTable, ItemId(r), "processing", FALSE)
    /\ Wrote(r, "processing")
    /\ IF KnownType(req[r].type)
         THEN calls' = Append(calls, r) /\ GoTo(l, "settle")
         ELSE UNCHANGED calls /\ GoTo(l, "markFailed")
    /\ UNCHANGED <<req, queue, isProcessing, cont, users, submitted, contLog,
                   outcome, response, delayLog, drains, expected>>
    /\ UNCHANGED <<codec, boot>>

\* Lines 183-186 reject: the catch block issues the UPDATE to 'failed'.
MarkProcessingFails(l) ==
    /\ LoopAt(l, "markProcessing")
    /\ GoTo(l, "markFailed")
    /\ UNCHANGED <<req, queue, isProcessing, cont, queueTable, users, submitted, expected>>
    /\ UNCHANGED histVars
    /\ UNCHANGED <<codec, boot>>

\* What axios.post of lines 244-252 / 271-279 can end with: the promise rejects
\* (timeout, transport error, status outside 2xx), or it resolves with no
\* body, with a body whose success field is absent or false, or with a body
\* whose success field is true.
Responses == {"rejected", "noBody", "noFlag", "flagTrue"}

\* axios.post resolved.
Delivered(resp) == resp # "rejected"
\* response.data is truthy.
HasBody(resp) == resp \in {"noFlag", "flagTrue"}
\* response.data.success is truthy.
HasSuccessFlag(resp) == resp = "flagTrue"

\* Lines 254-256 / 281-283: if (!response.data || !response.data.success) throw.
BodyIgnored(resp) == TRUE
BodySaysSuccess(resp) == HasBody(resp) /\ HasSuccessFlag(resp)

\* Lines 244-262 / 271-289: the response is delivered and its body says
\* success; line 192 issues the UPDATE to 'completed'.
SettleSucceeds(l) ==
    /\ LoopAt(l, "settle")
    /\ \E resp \in Responses :
          /\ Delivered(resp) /\ BodySaysSuccess(resp)
          /\ response' = [response EXCEPT ![loop[l].item] = resp]
    /\ outcome' = [outcome EXCEPT ![loop[l].item] = "success"]
    /\ GoTo(l, "markCompleted")
    /\ UNCHANGED <<req, queue, isProcessing, cont, queueTable, users, submitted,
                   calls, statusLog, contLog, delayLog, drains, expected>>
    /\ UNCHANGED <<codec, boot>>

\* axios.post rejects, or the body of the response does not say success and
\* line 255 / 282 throws: the catch block is entered.
SettleFails(l) ==
    /\ LoopAt(l, "settle")
    /\ \E resp \in Responses :
          /\ ~(Delivered(resp) /\ BodySaysSuccess(resp))
          /\ response' = [response EXCEPT ![loop[l].item] = resp]
    /\ outcome' = [outcome EXCEPT ![loop[l].item] = "failure"]
    /\ GoTo(l, "markFailed")
    /\ UNCHANGED <<req, queue, isProcessing, cont, queueTable, users, submitted,
                   calls, statusLog, contLog, delayLog, drains, expected>>
    /\ UNCHANGED <<codec, boot>>

\* Lines 192-200: the UPDATE to 'completed' has succeeded and onSuccess is
\* invoked (every caller of add() passes one).
MarkCompletedDone(l) ==
    LET r == loop[l].item IN
    /\ LoopAt(l, "markCompleted")
    /\ queueTable' = UpdateJob(queueTable, ItemId(r), "completed", TRUE)
    /\ Wrote(r, "completed")
    /\ contLog' = [contLog EXCEPT ![r] = Append(@, "onSuccess")]
    /\ cont' = [cont EXCEPT ![r] = OnSuccessEntry(r)]
    /\ GoTo(l, "onSuccess")
    /\ UNCHANGED <<req, queue, isProcessing, users, submitted, calls, outcome,
                   response, delayLog, drains, expected>>
    /\ UNCHANGED <<codec, boot>>

\* Lines 192-195 reject: the catch block is entered.
MarkCompletedFails(l) ==
    /\ LoopAt(l, "markCompleted")
    /\ GoTo(l, "markFailed")
    /\ UNCHANGED <<req, queue, isProcessing, cont, queueTable, users, submitted, expected>>
    /\ UNCHANGED histVars
    /\ UNCHANGED <<codec, boot>>

\* Line 199, the awaited onSuccess has settled: on to the delay when it
\* returned, into the catch block when it threw.
OnSuccessSettled(l) ==
    LET r == loop[l].item IN
    /\ LoopAt(l, "onSuccess")
    /\ Awaited(r)
    /\ IF cont[r] = "threw" THEN GoTo(l, "markFailed") ELSE GoTo(l, "delay")
    /\ UNCHANGED <<req, queue, isProcessing, cont, queueTable, users, submitted, expected>>
    /\ UNCHANGED histVars
    /\ UNCHANGED <<codec, boot>>

\* Lines 205-212: the UPDATE to 'failed' has succeeded; onError is invoked
\* when the item carries one, else the loop goes on to the delay.
MarkFailedDone(l) ==
    LET r == loop[l].item IN
    /\ LoopAt(l, "markFailed")
    /\ queueTable' = UpdateJob(queueTable, ItemId(r), "failed", TRUE)
    /\ Wrote(r, "failed")
    /\ IF req[r].onError
         THEN /\ contLog' = [contLog EXCEPT ![r] = Append(@, "onError")]
              /\ cont' = [cont EXCEPT ![r] = "errReply"]
              /\ GoTo(l, "onError")
         ELSE /\ UNCHANGED <<contLog, cont>>
              /\ GoTo(l, "delay")
    /\ UNCHANGED <<req, queue, isProcessing, users, submitted, calls, outcome,
                   response, delayLog, drains, expected>>
    /\ UNCHANGED <<codec, boot>>

\* Lines 205-208 reject inside the catch block: the exception leaves
\* process(), whose activation ends with the flag still set.
MarkFailedFails(l) ==
    /\ LoopAt(l, "markFailed")
    /\ loop' = [loop EXCEPT ![l] = IdleLoop]
    /\ UNCHANGED <<req, queue, isProcessing, cont, queueTable, users, submitted, expected>>
    /\ UNCHANGED histVars
    /\ UNCHANGED <<codec, boot>>

\* Line 211, the awaited onError has settled: on to the delay when it
\* returned; when it threw, the exception leaves process().
OnErrorSettled(l) ==
    LET r == loop[l].item IN
    /\ LoopAt(l, "onError")
    /\ Awaited(r)
    /\ IF cont[r] = "threw"
         THEN loop' = [loop EXCEPT ![l] = IdleLoop]
         ELSE GoTo(l, "delay")
    /\ UNCHANGED <<req, queue, isProcessing, cont, queueTable, users, submitted, expected>>
    /\ UNCHANGED histVars
    /\ UNCHANGED <<codec, boot>>

\* Line 216: the setTimeout of this.delayMs started after the item fires and
\* resolves the promise the loop awaits.
TimerFires(l) ==
    /\ LoopAt(l, "delay")
    /\ loop[l].item \notin Range(delayLog)
    /\ delayLog' = Append(delayLog, loop[l].item)
    /\ UNCHANGED <<req, queue, isProcessing, loop, cont, queueTable, users, submitted,
                   calls, statusLog, contLog, outcome, response, drains, expected>>
    /\ UNCHANGED <<codec, boot>>

\* await new Promise(resolve => setTimeout(resolve, this.delayMs)): the loop
\* goes on when the timer has fired.
DelayNotAwaited(l) == TRUE
DelayResolved(l) == loop[l].item \in Range(delayLog)

\* Lines 216-219 and 178-186: the delay has elapsed; the loop pops the next
\* item and issues its UPDATE, or finds the FIFO empty and clears the flag.
DelayElapsed(l) ==
    /\ LoopAt(l, "delay")
    /\ DelayResolved(l)
    /\ IF Len(queue) > 0
         THEN /\ loop' = [loop EXCEPT ![l] = [pc |-> "markProcessing", item |-> Head(queue)]]
              /\ queue' = Shifted
              /\ UNCHANGED <<isProcessing, drains>>
         ELSE /\ loop' = [loop EXCEPT ![l] = IdleLoop]
              /\ isProcessing' = FALSE
              /\ drains' = drains + 1
              /\ UNCHANGED queue
    /\ UNCHANGED <<req, cont, queueTable, users, submitted, expected>>
    /\ UNCHANGED <<calls, statusLog, contLog, outcome, response, delayLog>>
    /\ UNCHANGED <<codec, boot>>

\* ------------------------------------------------------ the continuations
\* newDollars of the deposit onSuccess (line 1124) and of the withdraw
\* onSuccess (line 1216), both computed from the balance the handler read
\* before it called add().
NewDollars(r) ==
    IF req[r].cmd = "deposit"
      THEN truncateDollar(Minus(req[r].current, req[r].amount))
      ELSE truncateDollar(req[r].current + req[r].amount)

\* Lines 1125-1128 / 1217-1220: UPDATE users SET dollars = newDollars.
OnSuccessWritesLedger(r) ==
    /\ cont[r] = "ledger"
    /\ users' = UpdateDollars(users, req[r].user, NewDollars(r))
    /\ expected' = [expected EXCEPT ![req[r].user] = @ + NewDollars(r) - req[r].current]
    /\ cont' = [cont EXCEPT ![r] = "reply"]
    /\ UNCHANGED <<req, queue, isProcessing, loop, queueTable, submitted>>
    /\ UNCHANGED histVars
    /\ UNCHANGED <<codec, boot>>

\* The UPDATE users of the continuation is rejected: onSuccess throws.
OnSuccessLedgerFails(r) ==
    /\ cont[r] = "ledger"
    /\ cont' = [cont EXCEPT ![r] = "threw"]
    /\ UNCHANGED <<req, queue, isProcessing, loop, queueTable, users, submitted, expected>>
    /\ UNCHANGED histVars
    /\ UNCHANGED <<codec, boot>>

\* interaction.editReply and sendLog of a continuation succeed: it returns.
ContinuationReturns(r) ==
    /\ cont[r] \in {"reply", "errReply"}
    /\ cont' = [cont EXCEPT ![r] = "returned"]
    /\ UNCHANGED <<req, queue, isProcessing, loop, queueTable, users, submitted, expected>>
    /\ UNCHANGED histVars
    /\ UNCHANGED <<codec, boot>>

\* interaction.editReply of a continuation rejects (lines 1138, 1230, 1312,
\* 1508, 1595 are not inside a try): the continuation throws.
ContinuationThrows(r) ==
    /\ cont[r] \in {"reply", "errReply"}
    /\ cont' = [cont EXCEPT ![r] = "threw"]
    /\ UNCHANGED <<req, queue, isProcessing, loop, queueTable, users, submitted, expected>>
    /\ UNCHANGED histVars
    /\ UNCHANGED <<codec, boot>>

\* ------------------------------------------- commands that submit a job
\* A caller of add() whose item has no effect on the ledger: payserver,
\* server pay and fine pass {type: 'card_to_id', onSuccess}; add() itself
\* takes any type and an optional onError (lines 210-212, 233-234).
SubmitItem(r, type, onError) ==
    /\ CanStart(r)
    /\ req' = [req EXCEPT ![r] = [IdleReq EXCEPT !.cmd = "item", !.pc = "inserting",
                                                 !.type = type, !.onError = onError]]
    /\ Push(r)
    /\ UNCHANGED <<isProcessing, loop, cont, queueTable, users, expected>>
    /\ UNCHANGED histVars
    /\ UNCHANGED <<codec, boot>>

\* ------------------------------------------------- the ledger commands
ledgerFrame == <<queue, isProcessing, loop, cont, queueTable, submitted>>

\* An early return of a handler: the reply says why and nothing is written.
\* current is the balance the handler had read by then (0 when it had not).
Refused(r, cmd, text, current) ==
    /\ req' = [req EXCEPT ![r] = [IdleReq EXCEPT !.cmd = cmd, !.pc = "refused",
                                     !.text = text, !.amount = parseFloat(text),
                                     !.current = current]]
    /\ UNCHANGED <<users, expected>>

\* /adm give, lines 1657-1675: one upsert adds the truncated amount.
Give(r, target, text) ==
    LET amount == parseFloat(text) IN
    /\ CanStart(r)
    /\ IF InvalidAmount(text)
         THEN Refused(r, "give", text, 0)
         ELSE /\ users' = UpsertAddDollars(users, target, truncateDollar(amount))
              /\ expected' = [expected EXCEPT ![target] = @ + truncateDollar(amount)]
              /\ req' = [req EXCEPT ![r] = [IdleReq EXCEPT !.cmd = "give", !.pc = "done",
                                               !.target = target, !.text = text, !.amount = amount]]
    /\ UNCHANGED ledgerFrame
    /\ UNCHANGED histVars
    /\ UNCHANGED <<codec, boot>>

\* /adm set, lines 1754-1772: refused only below zero; one upsert stores the
\* truncated amount.
Set(r, target, text) ==
    LET amount == parseFloat(text) IN
    /\ CanStart(r)
    /\ IF InvalidSetAmount(text)
         THEN Refused(r, "set", text, 0)
         ELSE /\ users' = UpsertSetDollars(users, target, truncateDollar(amount))
              /\ expected' = [expected EXCEPT ![target] = truncateDollar(amount)]
              /\ req' = [req EXCEPT ![r] = [IdleReq EXCEPT !.cmd = "set", !.pc = "done",
                                               !.target = target, !.text = text, !.amount = amount]]
    /\ UNCHANGED ledgerFrame
    /\ UNCHANGED histVars
    /\ UNCHANGED <<codec, boot>>

\* /adm take, lines 1703-1722: the amount is validated, the balance read and
\* checked against the truncated amount.
TakeRead(r, target, text) ==
    LET amount == parseFloat(text) IN
    /\ CanStart(r)
    /\ IF InvalidAmount(text)
            \/ InsufficientDollars(DollarsOf(users[target]), truncateDollar(amount))
         THEN Refused(r, "take", text,
                      IF InvalidAmount(text) THEN 0 ELSE DollarsOf(users[target]))
         ELSE /\ req' = [req EXCEPT ![r] = [IdleReq EXCEPT !.cmd = "take", !.pc = "takeWrite",
                            !.target = target, !.text = text, !.amount = amount,
                            !.current = DollarsOf(users[target])]]
              /\ UNCHANGED <<users, expected>>
    /\ UNCHANGED ledgerFrame
    /\ UNCHANGED histVars
    /\ UNCHANGED <<codec, boot>>

\* /adm take, lines 1725-1729: the balance computed from the one read is stored.
TakeWrite(r) ==
    LET new == truncateDollar(Minus(req[r].current, truncateDollar(req[r].amount))) IN
    /\ req[r].pc = "takeWrite"
    /\ users' = UpdateDollars(users, req[r].target, new)
    /\ expected' = [expected EXCEPT ![req[r].target] = @ + new - req[r].current]
    /\ req' = [req EXCEPT ![r].pc = "done"]
    /\ UNCHANGED ledgerFrame
    /\ UNCHANGED histVars
    /\ UNCHANGED <<codec, boot>>

\* /money pay, lines 978-999: the amount is validated, the payer's balance
\* read and checked against the truncated amount.
PayRead(r, user, target, text) ==
    LET amount == parseFloat(text) IN
    /\ CanStart(r)
    /\ IF InvalidAmount(text)
            \/ InsufficientDollars(DollarsOf(users[user]), truncateDollar(amount))
         THEN Refused(r, "pay", text,
                      IF InvalidAmount(text) THEN 0 ELSE DollarsOf(users[user]))
         ELSE /\ req' = [req EXCEPT ![r] = [IdleReq EXCEPT !.cmd = "pay", !.pc = "payFindReceiver",
                            !.user = user, !.target = target, !.text = text, !.amount = amount,
                            !.current = DollarsOf(users[user])]]
              /\ UNCHANGED <<users, expected>>
    /\ UNCHANGED ledgerFrame
    /\ UNCHANGED histVars
    /\ UNCHANGED <<codec, boot>>

\* /money pay, lines 1002-1005: the receiver's row is looked up.
PayFindReceiver(r) ==
    /\ req[r].pc = "payFindReceiver"
    /\ req' = [req EXCEPT ![r].pc =
                  IF users[req[r].target].present THEN "payDebit" ELSE "payInsertReceiver"]
    /\ UNCHANGED <<users, expected>>
    /\ UNCHANGED ledgerFrame
    /\ UNCHANGED histVars
    /\ UNCHANGED <<codec, boot>>

\* /money pay, lines 1006-1010: a plain INSERT of the receiver with 0; it
\* violates the primary key when the row has appeared since the lookup, and
\* the handler's outer catch (line 1789) ends the command.
PayInsertReceiver(r) ==
    /\ req[r].pc = "payInsertReceiver"
    /\ IF users[req[r].target].present
         THEN /\ req' = [req EXCEPT ![r].pc = "failed"]
              /\ UNCHANGED users
         ELSE /\ req' = [req EXCEPT ![r].pc = "payDebit"]
              /\ users' = [users EXCEPT ![req[r].target] =
                              [present |-> TRUE, dollars |-> 0, card |-> FALSE]]
    /\ UNCHANGED expected
    /\ UNCHANGED ledgerFrame
    /\ UNCHANGED histVars
    /\ UNCHANGED <<codec, boot>>

\* /money pay, lines 1015-1019: the payer's balance computed from the one
\* read is stored.
PayDebit(r) ==
    LET new == truncateDollar(Minus(req[r].current, truncateDollar(req[r].amount))) IN
    /\ req[r].pc = "payDebit"
    /\ users' = UpdateDollars(users, req[r].user, new)
    /\ expected' = [expected EXCEPT ![req[r].user] = @ + new - req[r].current]
    /\ req' = [req EXCEPT ![r].pc = "payCredit"]
    /\ UNCHANGED ledgerFrame
    /\ UNCHANGED histVars
    /\ UNCHANGED <<codec, boot>>

\* /money pay, lines 1022-1028: one upsert adds the truncated amount to the
\* receiver.
PayCredit(r) ==
    /\ req[r].pc = "payCredit"
    /\ users' = UpsertAddDollars(users, req[r].target, truncateDollar(req[r].amount))
    /\ expected' = [expected EXCEPT ![req[r].target] = @ + truncateDollar(req[r].amount)]
    /\ req' = [req EXCEPT ![r].pc = "done"]
    /\ UNCHANGED ledgerFrame
    /\ UNCHANGED histVars
    /\ UNCHANGED <<codec, boot>>

\* /money deposit, lines 1062-1087: the amount is validated, the user's row
\* read, the linked card required and the balance checked against the amount.
DepositRead(r, user, text) ==
    LET amount == parseFloat(text) IN
    /\ CanStart(r)
    /\ IF InvalidAmount(text) \/ ~users[user].card
            \/ InsufficientDollars(DollarsOf(users[user]), amount)
         THEN Refused(r, "deposit", text,
                      IF InvalidAmount(text) THEN 0 ELSE DollarsOf(users[user]))
         ELSE /\ req' = [req EXCEPT ![r] = [IdleReq EXCEPT !.cmd = "deposit", !.pc = "remoteCheck",
                            !.user = user, !.text = text, !.amount = amount,
                            !.current = DollarsOf(users[user])]]
              /\ UNCHANGED <<users, expected>>
    /\ UNCHANGED ledgerFrame
    /\ UNCHANGED histVars
    /\ UNCHANGED <<codec, boot>>

\* /money withdraw, lines 1161-1178: the amount is validated, the user's row
\* read and the linked card required.
WithdrawRead(r, user, text) ==
    LET amount == parseFloat(text) IN
    /\ CanStart(r)
    /\ IF InvalidAmount(text) \/ ~users[user].card
         THEN Refused(r, "withdraw", text,
                      IF InvalidAmount(text) THEN 0 ELSE DollarsOf(users[user]))
         ELSE /\ req' = [req EXCEPT ![r] = [IdleReq EXCEPT !.cmd = "withdraw", !.pc = "remoteCheck",
                            !.user = user, !.text = text, !.amount = amount,
                            !.current = DollarsOf(users[user])]]
              /\ UNCHANGED <<users, expected>>
    /\ UNCHANGED ledgerFrame
    /\ UNCHANGED histVars
    /\ UNCHANGED <<codec, boot>>

\* /payserver (lines 1254-1259), /server pay (1447-1453) and /server fine
\* (1535-1541): the amount, in coins, is validated; the lookups follow.
CoinCommands == {"payserver", "serverpay", "fine"}

CoinCommandRead(r, cmd, text) ==
    /\ CanStart(r)
    /\ IF InvalidAmount(text)
         THEN Refused(r, cmd, text, 0)
         ELSE req' = [req EXCEPT ![r] = [IdleReq EXCEPT !.cmd = cmd, !.pc = "remoteCheck",
                                            !.text = text, !.amount = parseFloat(text)]]
    /\ UNCHANGED <<users, expected>>
    /\ UNCHANGED ledgerFrame
    /\ UNCHANGED histVars
    /\ UNCHANGED <<codec, boot>>

\* What the lookups a handler makes between its local checks and add() end
\* with.  "failed": a card is not configured or checkCardStatus throws
\* (lines 495-499, any error but a 404).  The others are what checkCardStatus
\* returns for the account the coins come from: "notFound" is
\* {success: false, found: false} (line 497), "noSuccess" a body with no
\* success and no coins, "low" success with coins below the amount, "enough"
\* success with coins that cover it.
Lookups == {"failed", "notFound", "noSuccess", "low", "enough"}

\* status.success is truthy.
StatusSuccess(st) == st \in {"low", "enough"}
\* status.coins < coinAmount, which is false when coins is undefined.
CoinsBelow(st) == st = "low"

\* Handlers that test !status.success || status.coins < coinAmount (lines
\* 1196, 1283, 1565); deposit and server pay test status.coins < coinAmount
\* alone (lines 1100, 1471).
TestsSuccess(cmd) == cmd \in {"withdraw", "payserver", "fine"}

LookupRefuses(cmd, st) ==
    \/ st = "failed"
    \/ TestsSuccess(cmd) /\ ~StatusSuccess(st)
    \/ CoinsBelow(st)

\* Lines 1089-1109, 1180-1201, 1267-1292, 1460-1487, 1548-1574: a lookup
\* fails or the test on the status refuses: the command ends before add().
RemoteCheckRefuses(r) ==
    /\ req[r].pc = "remoteCheck"
    /\ \E st \in Lookups :
          /\ LookupRefuses(req[r].cmd, st)
          /\ req' = [req EXCEPT ![r].pc = "refused", ![r].lookup = st]
    /\ UNCHANGED <<users, expected>>
    /\ UNCHANGED ledgerFrame
    /\ UNCHANGED histVars
    /\ UNCHANGED <<codec, boot>>

\* Lines 1113-1121, 1205-1213, 1296-1304, 1491-1499, 1577-1585: the checks
\* have passed and add() is called with a card_to_card item (withdraw) or a
\* card_to_id item (the others), each with an onSuccess and no onError.
ExchangeSubmit(r) ==
    /\ req[r].pc = "remoteCheck"
    /\ \E st \in Lookups :
          /\ ~LookupRefuses(req[r].cmd, st)
          /\ req' = [req EXCEPT ![r].pc = "inserting", ![r].lookup = st,
                                ![r].type = IF req[r].cmd = "withdraw" THEN "card_to_card"
                                                                       ELSE "card_to_id"]
    /\ Push(r)
    /\ UNCHANGED <<isProcessing, loop, cont, queueTable, users, expected>>
    /\ UNCHANGED histVars
    /\ UNCHANGED <<codec, boot>>

\* /setcard, lines 788-819: one upsert stores the card id of the member who
\* ran the command.
SetCard(r, user) ==
    /\ CanStart(r)
    /\ users' = UpsertSetCard(users, user)
    /\ req' = [req EXCEPT ![r] = [IdleReq EXCEPT !.cmd = "setcard", !.pc = "done",
                                     !.user = user]]
    /\ UNCHANGED expected
    /\ UNCHANGED ledgerFrame
    /\ UNCHANGED histVars
    /\ UNCHANGED <<codec, boot>>

LedgerStep ==
    \/ \E r \in Req, h \in Holders, a \in AmountTexts : Give(r, h, a)
    \/ \E r \in Req, h \in Holders, a \in AmountTexts : Set(r, h, a)
    \/ \E r \in Req, h \in Holders, a \in AmountTexts : TakeRead(r, h, a)
    \/ \E r \in Req : TakeWrite(r)
    \/ \E r \in Req, h \in Holders, t \in Holders, a \in AmountTexts : PayRead(r, h, t, a)
    \/ \E r \in Req : PayFindReceiver(r)
    \/ \E r \in Req : PayInsertReceiver(r)
    \/ \E r \in Req : PayDebit(r)
    \/ \E r \in Req : PayCredit(r)
    \/ \E r \in Req, h \in Holders, a \in AmountTexts : DepositRead(r, h, a)
    \/ \E r \in Req, h \in Holders, a \in AmountTexts : WithdrawRead(r, h, a)
    \/ \E r \in Req : RemoteCheckRefuses(r)
    \/ \E r \in Req : ExchangeSubmit(r)

\* Steps of add() and of the drain loop while the Job Store accepts every
\* statement.
DrainStep ==
    \/ \E r \in Req : AddReturns(r)
    \/ \E l \in LoopId : MarkProcessingDone(l)
    \/ \E l \in LoopId : SettleSucceeds(l)
    \/ \E l \in LoopId : SettleFails(l)
    \/ \E l \in LoopId : MarkCompletedDone(l)
    \/ \E l \in LoopId : OnSuccessSettled(l)
    \/ \E l \in LoopId : MarkFailedDone(l)
    \/ \E l \in LoopId : TimerFires(l)
    \/ \E l \in LoopId : DelayElapsed(l)
    \/ \E r \in Req : ContinuationReturns(r)
    \/ \E r \in Req : ContinuationThrows(r)

\* A statement on the table "queue" is rejected.
StorageFaultStep ==
    \/ \E r \in Req : AddThrows(r)
    \/ \E l \in LoopId : MarkProcessingFails(l)
    \/ \E l \in LoopId : MarkCompletedFails(l)
    \/ \E l \in LoopId : MarkFailedFails(l)

\* The commands that move coins only: payserver, server pay, fine.
CoinStep == \E r \in Req, c \in CoinCommands, a \in AmountTexts : CoinCommandRead(r, c, a)

\* The command that links a card.
CardStep == \E r \in Req, h \in Holders : SetCard(r, h)

\* Steps only an item with an onError takes.
OnErrorStep == \E l \in LoopId : OnErrorSettled(l)

\* Steps only the continuations of deposit and withdraw take.
ExchangeStep ==
    \/ \E r \in Req : OnSuccessWritesLedger(r)
    \/ \E r \in Req : OnSuccessLedgerFails(r)

SubmitStep ==
    \E r \in Req, type \in ItemTypes, onError \in BOOLEAN : SubmitItem(r, type, onError)

\* The whole bot: every command and the queue.
Next ==
    \/ SubmitStep \/ LedgerStep \/ CoinStep \/ CardStep
    \/ DrainStep \/ StorageFaultStep \/ OnErrorStep \/ ExchangeStep

Spec == Init /\ [][Next]_vars

\* The PaymentQueue under callers of add() whose items leave the ledger alone.
QueueNext == SubmitStep \/ DrainStep \/ StorageFaultStep \/ OnErrorStep

QueueSpec == Init /\ [][QueueNext]_vars

\* The same, with a Job Store that accepts every statement.
ReliableStoreNext == SubmitStep \/ DrainStep \/ OnErrorStep

ReliableStoreSpec == Init /\ [][ReliableStoreNext]_vars

\* The commands of index.js as they are (no item carries an onError), with a
\* Job Store that accepts every statement.
LedgerNext == LedgerStep \/ DrainStep \/ ExchangeStep

LedgerSpec == Init /\ [][LedgerNext]_vars

\* The same with the commands that move coins only.
CommandNext == LedgerStep \/ CoinStep \/ DrainStep \/ ExchangeStep

CommandSpec == Init /\ [][CommandNext]_vars

\* ------------------------------------------------------------ properties
\* Activations of process() that have not ended.
\* ---------------------------------------------------------------- restart
\* Jobs whose row of the table "queue" is 'pending' or 'processing'.
OpenJobs ==
    {queueTable[n].job : n \in {m \in DOMAIN queueTable :
                                  queueTable[m].status \in {"pending", "processing"}}}

\* The open jobs in the order of their rows, as a start that reloaded the
\* table would queue them; for comparison.
RECURSIVE JobsOf(_)
JobsOf(table) ==
    IF table = <<>> THEN <<>>
    ELSE IF Head(table).status \in {"pending", "processing"}
           THEN <<Head(table).job>> \o JobsOf(Tail(table))
           ELSE JobsOf(Tail(table))
OpenJobsReloaded == JobsOf(queueTable)

\* this.queue = [] of the constructor (line 143); start() (lines 1857-1876)
\* and initDatabase() read nothing from the table "queue".
QueueAtStart == <<>>

\* Positions a handler of the old process can have been stopped at.
Ended == {"idle", "refused", "done", "failed", "added", "addThrew"}

\* The process stops and is started again: line 316 constructs a new
\* PaymentQueue (lines 141-145) with an empty FIFO and a cleared flag; the
\* handlers, loop activations and continuations of the old process are gone,
\* the tables are as they were.
Restart ==
    /\ boot.n < MaxRestarts
    /\ queue' = QueueAtStart
    /\ isProcessing' = FALSE
    /\ loop' = [l \in LoopId |-> IdleLoop]
    /\ cont' = [r \in Req |-> "none"]
    /\ req' = [r \in Req |-> IF req[r].pc \in Ended THEN req[r]
                                                   ELSE [req[r] EXCEPT !.pc = "killed"]]
    /\ boot' = [n |-> boot.n + 1, calls |-> Len(calls), jobs |-> OpenJobs]
    /\ UNCHANGED <<queueTable, users, submitted, expected, codec>>
    /\ UNCHANGED histVars

\* The queue with a Job Store that accepts every statement, and restarts.
RestartNext == SubmitStep \/ DrainStep \/ OnErrorStep \/ Restart

RestartSpec == Init /\ [][RestartNext]_vars

\* ------------------------------------------------- the amount functions
codecFrame == <<req, queue, isProcessing, loop, cont, queueTable, users, submitted,
                calls, statusLog, contLog, outcome, response, delayLog, drains,
                boot, expected>>

\* formatCoinAmount(payload.amount), lines 248 and 275, of any number.
FormatCoin(x) ==
    /\ codec.fn = "none"
    /\ codec' = [IdleCodec EXCEPT !.fn = "formatCoinAmount", !.arg = x,
                                  !.text = formatCoinAmount(x)]
    /\ UNCHANGED codecFrame

\* The text is read back as a number and formatted again.
Reencode ==
    /\ codec.fn = "formatCoinAmount"
    /\ codec' = [codec EXCEPT !.fn = "reencoded",
                              !.again = formatCoinAmount(Number(codec.text))]
    /\ UNCHANGED codecFrame

\* truncateDollar(amount), lines 383-387.
FloorFiat(dollarAmount) ==
    /\ codec.fn = "none"
    /\ codec' = [IdleCodec EXCEPT !.fn = "truncateDollar", !.fiat = dollarAmount,
                                  !.cents = truncateDollar(dollarAmount)]
    /\ UNCHANGED codecFrame

\* The amount of an exchange on its way to the request: coinAmount of lines
\* 1101 and 1192 becomes payload.amount (lines 1120, 1211), which
\* transferCardToId and transferCardToCard format (lines 248, 275).
ExchangeAmount(dollarAmount) ==
    /\ codec.fn = "none"
    /\ codec' = [IdleCodec EXCEPT !.fn = "exchange", !.fiat = dollarAmount,
                                  !.arg = CoinAmount(dollarAmount),
                                  !.text = formatCoinAmount(CoinAmount(dollarAmount))]
    /\ UNCHANGED codecFrame

CodecNext ==
    \/ \E x \in CoinInputs : FormatCoin(x)
    \/ Reencode
    \/ \E f \in FiatInputs : FloorFiat(f)
    \/ \E f \in FiatExchanged : ExchangeAmount(f)

\* The amount functions alone, applied to the inputs above.
CodecSpec == Init /\ [][CodecNext]_vars

LiveLoops == {l \in LoopId : loop[l].pc # "idle"}

\* The item's continuation has been invoked and has not settled.
Running(r) == cont[r] \in {"ledger", "reply", "errReply"}

\* Items popped from the FIFO whose continuation has not returned yet.
InFlight ==
    {r \in Req :
        \/ \E l \in LoopId : loop[l].item = r /\ loop[l].pc # "delay"
        \/ Running(r)}

\* The item has left the FIFO and no activation of process() holds it.
Finished(r) ==
    /\ r \in Range(submitted)
    /\ r \notin Range(queue)
    /\ \A l \in LoopId : loop[l].item # r

\* Nothing of the queue is running: no add() awaits its INSERT, no activation
\* of process() is alive, no continuation is running.
Quiescent ==
    /\ LiveLoops = {}
    /\ \A r \in Req : req[r].pc # "inserting" /\ ~Running(r)

\* C1: at most one item is between its pop and the return of its continuation,
\* at most one settlement call is in flight, and at most one activation of
\* process() is alive.
C1_OneJobInFlight ==
    /\ Cardinality(InFlight) <= 1
    /\ Cardinality(LiveLoops) <= 1
    /\ Cardinality({l \in LoopId : loop[l].pc = "settle"}) <= 1

\* A settlement call is in flight while a second add() has returned with its
\* item still in the FIFO.
C1_Witness ==
    \E l \in LoopId, r \in Req :
        /\ loop[l].pc = "settle"
        /\ req[r].pc = "added"
        /\ r \in Range(queue)

IsPrefix(a, b) == Len(a) <= Len(b) /\ \A i \in 1..Len(a) : a[i] = b[i]

\* C2: when every submitted item is of a known type, the settlement client is
\* called once per item in the order of submission: the calls made so far are
\* the first submitted items, and all of them once nothing of the queue is
\* running.
C2_OneCallPerJobInOrder ==
    (\A r \in Range(submitted) : KnownType(req[r].type)) =>
        /\ IsPrefix(calls, submitted)
        /\ Quiescent => calls = submitted

\* The continuation the item's outcome calls for is one the item carries.
ContinuationDue(r) == outcome[r] = "success" \/ req[r].onError

\* The item has a terminal status and the continuation due to it was invoked.
Terminated(r) ==
    /\ statusLog[r] # <<>>
    /\ Last(statusLog[r]) \in {"completed", "failed"}
    /\ ContinuationDue(r) => contLog[r] # <<>>

\* C3: every item for which add() returned an id reaches a terminal status
\* and has its continuation invoked: once nothing of the queue is running any
\* more, no such item is left pending or processing.
C3_EveryJobTerminates ==
    Quiescent => \A r \in Req : req[r].pc = "added" => Terminated(r)

\* C4: a continuation that throws does not end the drain loop: the activation
\* of process() that awaited it is still alive after the step that takes the
\* exception.
C4_ThrowStaysInLoop ==
    [][\A l \in LoopId :
          (loop[l].pc \in {"onSuccess", "onError"} /\ cont[loop[l].item] = "threw")
              => loop'[l].pc # "idle"]_vars

\* C5: the statuses written for an item are processing, then exactly one of
\* completed and failed, and none after that one.
C5_StatusesMonotonic ==
    \A r \in Req :
        statusLog[r] \in {<<>>, <<"processing">>, <<"processing", "completed">>,
                          <<"processing", "failed">>}

\* C6: an item has at most one continuation invoked, onSuccess only when the
\* settlement call returned success and onError only when it did not, and an
\* item the loop has finished with has had the one due to it invoked.
C6_ExactlyOneContinuation ==
    \A r \in Req :
        /\ Len(contLog[r]) <= 1
        /\ "onSuccess" \in Range(contLog[r]) => outcome[r] = "success"
        /\ "onError" \in Range(contLog[r]) => outcome[r] # "success"
        /\ (Finished(r) /\ ContinuationDue(r)) => contLog[r] # <<>>

\* C7: the row inserted for an item follows the item's status: once the loop
\* has finished with the item, its row is completed or failed and carries
\* processed_at.
C7_RowFollowsJob ==
    \A n \in DOMAIN queueTable :
        Finished(queueTable[n].job) =>
            /\ queueTable[n].status \in {"completed", "failed"}
            /\ queueTable[n].processed_at

\* No handler is between two awaits and nothing of the queue is running.
AllQuiet ==
    /\ Quiescent
    /\ queue = <<>>
    /\ \A r \in Req : req[r].pc \in {"idle", "refused", "done", "failed", "added", "addThrew"}

\* Two deposits of one holder, validated against the same balance, that the
\* settlement client both carried out.
BothSettled(r1, r2) ==
    /\ r1 # r2
    /\ req[r1].cmd = "deposit" /\ req[r2].cmd = "deposit"
    /\ req[r1].user = req[r2].user
    /\ req[r1].current = req[r2].current
    /\ outcome[r1] = "success" /\ outcome[r2] = "success"

\* C8: no update of an account is lost to a stale read: when everything has
\* finished, each balance is the initial one plus the credits and minus the
\* debits of the operations that succeeded, and two deposits validated
\* against the same balance do not both settle when their sum exceeds it.
C8_NoLostUpdate ==
    /\ AllQuiet => \A h \in Holders : DollarsOf(users[h]) = expected[h]
    /\ \A r1, r2 \in Req :
          BothSettled(r1, r2) => req[r1].amount + req[r2].amount <= req[r1].current

\* C9: no balance of the ledger is below zero.
C9_BalanceNeverNegative == \A h \in Holders : users[h].dollars >= 0

\* Two debits of one balance have both been written, the second computed from
\* a read made before the first was written.
C9_Witness ==
    \E r1, r2 \in Req :
        /\ r1 # r2
        /\ req[r1].cmd = "take" /\ req[r1].pc = "done"
        /\ req[r2].cmd = "deposit" /\ cont[r2] = "returned"
        /\ req[r1].target = req[r2].user
        /\ req[r1].current = req[r2].current

\* Position of item r in seq (0 when it is not there).
IndexIn(seq, r) == IF r \in Range(seq) THEN CHOOSE i \in DOMAIN seq : seq[i] = r ELSE 0

\* C10: settlement calls are issued in the order of submission, and when the
\* call of an item has been issued every item called before it is done with:
\* no activation of process() holds it and its continuation, the write to the
\* ledger included, has returned.
C10_StrictFifo ==
    /\ \A i, j \in DOMAIN calls :
          i < j => IndexIn(submitted, calls[i]) < IndexIn(submitted, calls[j])
    /\ \A i \in DOMAIN calls :
          i < Len(calls) => Finished(calls[i]) /\ ~Running(calls[i])

\* The call of the second item is in flight after the continuation of the
\* first, a deposit or a withdraw, has written the ledger and returned.
C10_Witness ==
    /\ Len(calls) = 2
    /\ req[calls[1]].cmd \in {"deposit", "withdraw"}
    /\ cont[calls[1]] = "returned"
    /\ users[req[calls[1]].user].dollars # req[calls[1]].current
    /\ \E l \in LoopId : loop[l].pc = "settle" /\ loop[l].item = calls[2]

\* C11: when the settlement call of an item is issued, the delay started after
\* every item called before it has fully elapsed, whether the item waited in
\* the FIFO or was added after the FIFO had drained empty.
C11_DelayBetweenCalls ==
    \A i \in DOMAIN calls : i < Len(calls) => calls[i] \in Range(delayLog)

\* A drain has ended on an empty FIFO and the settlement call of an item added
\* after that is in flight.
C11_Witness ==
    /\ drains = 1
    /\ Len(calls) = 2
    /\ \E l \in LoopId : loop[l].pc = "settle" /\ loop[l].item = calls[2]

\* The activation of process() that popped the item ended before the delay
\* that follows the item: an exception left the loop.
Abandoned(r) == Finished(r) /\ r \notin Range(delayLog)

\* The rows of the Job Store inserted for the item.
RowsOf(r) == {n \in DOMAIN queueTable : queueTable[n].job = r}

\* C12: an item whose settlement call failed is marked failed in the Job
\* Store, has its onError invoked and its onSuccess not, and the drain loop
\* goes on after it.
C12_SettlementFailureIsNormal ==
    \A r \in Req :
        (outcome[r] = "failure" /\ Finished(r)) =>
            /\ \A n \in RowsOf(r) : queueTable[n].status = "failed"
            /\ req[r].onError => "onError" \in Range(contLog[r])
            /\ "onSuccess" \notin Range(contLog[r])
            /\ ~Abandoned(r)

\* Responses delivered with transport-level success whose body is empty or
\* does not carry the success flag.
Flagless == {"noBody", "noFlag"}

\* C13: a transfer counts as successful only when the body of the response
\* carries the success flag: an item whose response was delivered without it
\* fails ('failed' is written, never 'completed') and its onSuccess is never
\* invoked.
C13_SuccessNeedsFlag ==
    \A r \in Req :
        /\ outcome[r] = "success" => response[r] = "flagTrue"
        /\ "onSuccess" \in Range(contLog[r]) => response[r] = "flagTrue"
        /\ response[r] \in Flagless =>
              /\ outcome[r] = "failure"
              /\ "completed" \notin Range(statusLog[r])
              /\ Finished(r) => "failed" \in Range(statusLog[r])

\* The loop is done with an item whose response came with a body that has no
\* success field.
C13_Witness ==
    \E r \in Req :
        /\ response[r] = "noFlag"
        /\ Finished(r)
        /\ statusLog[r] = <<"processing", "failed">>

\* C14: an item of a type processItem does not know ends failed in the Job
\* Store with the error delivered to its onError, the settlement client is
\* not called for it, and the drain loop goes on to the items after it.
C14_UnknownKindFails ==
    \A r \in Req :
        (r \in Range(submitted) /\ ~KnownType(req[r].type)) =>
            /\ r \notin Range(calls)
            /\ Finished(r) =>
                  /\ \A n \in RowsOf(r) : queueTable[n].status = "failed"
                  /\ req[r].onError => "onError" \in Range(contLog[r])
                  /\ ~Abandoned(r)

\* The drain loop has popped the item.
Popped(r) == r \in Range(submitted) /\ r \notin Range(queue)

\* C15: an item is in the FIFO only once its pending row has been inserted in
\* the Job Store, and the drain loop pops no item whose INSERT has not
\* completed.
C15_PersistedBeforeQueued ==
    \A r \in Req :
        /\ r \in Range(queue) => RowsOf(r) # {}
        /\ Popped(r) => RowsOf(r) # {}

\* Number of settlement calls issued for the item.
CallsOf(r) == Cardinality({i \in DOMAIN calls : calls[i] = r})

\* C16: the queue never retries: at most one settlement call is issued for an
\* item, whatever its outcome, and an item the loop has popped is not in the
\* FIFO again.
C16_NoRetry ==
    \A r \in Req :
        /\ CallsOf(r) <= 1
        /\ Cardinality({i \in DOMAIN queue : queue[i] = r}) <= 1
        /\ statusLog[r] # <<>> => r \notin Range(queue)

\* The settlement call of an item failed, the loop went on after it and the
\* drain ended on an empty FIFO with that one call made.
C16_Witness ==
    \E r \in Req :
        /\ outcome[r] = "failure"
        /\ r \in Range(delayLog)
        /\ drains = 1
        /\ calls = <<r>>

\* The amount option of the request is no number or is not positive.
NotPositive(q) == isNaN(q.text) \/ parseFloat(q.text) <= 0

\* The amount option of the request is no number or is negative.
Negative(q) == isNaN(q.text) \/ parseFloat(q.text) < 0

\* The balance the handler read is lower than the amount the command debits:
\* pay and take debit the amount floored to the cent, deposit the amount.
LowBalance(q) ==
    /\ q.cmd \in {"pay", "take", "deposit"}
    /\ ~isNaN(q.text)
    /\ q.current < (IF q.cmd = "deposit" THEN parseFloat(q.text)
                                         ELSE truncateDollar(parseFloat(q.text)))

\* The step in which the handler of request r runs up to its first await or
\* return.
Starts(r) == req[r].cmd = "none" /\ req'[r].cmd # "none"

\* The step refuses request r and changes nothing: no row of the ledger, no
\* item in the FIFO, no row in the Job Store, no settlement call.
RejectedUntouched(r) ==
    /\ req'[r].pc = "refused"
    /\ UNCHANGED <<users, queue, submitted, queueTable, calls>>

C18_RemoteCheckRejects ==
    \A r \in Req :
        (req[r].cmd \in {"deposit", "withdraw"} \cup CoinCommands
            /\ req[r].lookup \in {"notFound", "noSuccess", "low"})
          => r \notin Range(submitted)

\* No other request is between its first and its last step.
Uninterleaved(r) ==
    \A r2 \in Req \ {r} : req[r2].pc \in {"idle", "refused", "done", "failed"}

\* The step is the whole of an accepted give of request r.
GiveDone(r) == Starts(r) /\ req'[r].cmd = "give" /\ req'[r].pc = "done"

\* The step is the debit of pay request r, run without interleaving: the
\* balance the handler read is still the one stored.
PayDebitAlone(r) ==
    /\ req[r].pc = "payDebit" /\ req'[r].pc = "payCredit"
    /\ Uninterleaved(r)
    /\ users[req[r].user].present
    /\ users[req[r].user].dollars = req[r].current

\* The step is the credit of pay request r.
PayCreditDone(r) == req[r].pc = "payCredit" /\ req'[r].pc = "done"

\* C19: an accepted give(H, a) leaves H with a row whose balance is the old
\* one (0 when H had no row) plus a floored to the cent; a pay(H, H2, a) run
\* without interleaving lowers H by a floored to the cent in its debit and
\* raises H2, created when absent, by the same amount in its credit, so that
\* the two steps together leave the sum of the balances unchanged, also when
\* H2 = H.
C19_GiveAndPayMoveFlooredAmount ==
    [][\A r \in Req :
         /\ GiveDone(r) =>
               /\ users'[req'[r].target].present
               /\ users'[req'[r].target].dollars =
                      DollarsOf(users[req'[r].target]) + truncateDollar(req'[r].amount)
         /\ PayDebitAlone(r) =>
               users'[req[r].user].dollars =
                  users[req[r].user].dollars - truncateDollar(req[r].amount)
         /\ PayCreditDone(r) =>
               /\ users'[req[r].target].present
               /\ users'[req[r].target].dollars =
                      DollarsOf(users[req[r].target]) + truncateDollar(req[r].amount)]_vars

\* The step is the ledger write of the onSuccess continuation of withdraw
\* request r.
WithdrawCredited(r) ==
    /\ req[r].cmd = "withdraw"
    /\ cont[r] = "ledger" /\ cont'[r] # "ledger"
    /\ users' # users

\* C20: the ledger write of a withdraw job's onSuccess continuation leaves
\* the holder with the balance that was stored when the continuation ran plus
\* the fiat amount f of the request.
C20_WithdrawAddsAmount ==
    [][\A r \in Req :
         WithdrawCredited(r) =>
            users'[req[r].user].dollars = users[req[r].user].dollars + req[r].amount]_vars

\* The settlement of item r has failed: processItem threw for its type or
\* the call did not return a body with a truthy success.
SettlementFailed(r) ==
    /\ r \in Range(submitted)
    /\ \/ ~KnownType(req[r].type)
       \/ response[r] \in {"rejected"} \cup Flagless

\* The step changes the ledger and is no step of a command handler.
JobChangesLedger == users' # users /\ req' = req

\* The step is the ledger write of the onSuccess continuation of item r.
ContinuationWrites(r) == cont[r] = "ledger" /\ cont'[r] # "ledger"

\* C21: a step of the queue that changes a ledger balance is the write of the
\* onSuccess continuation of a deposit or withdraw job whose settlement call
\* succeeded; a job whose settlement failed or whose type is unknown never
\* has its onSuccess invoked, so the ledger is as it was before the job.
C21_LedgerOnlyOnSuccess ==
    [][/\ JobChangesLedger =>
            \E r \in Req : /\ ContinuationWrites(r)
                           /\ req[r].cmd \in {"deposit", "withdraw"}
                           /\ ~SettlementFailed(r)
                           /\ response[r] = "flagTrue"
       /\ \A r \in Req : SettlementFailed(r) =>
               /\ cont'[r] # "ledger"
               /\ "onSuccess" \notin Range(contLog'[r])]_vars

\* A deposit or withdraw job has failed and the loop is past it.
C21_Witness ==
    \E r \in Req : /\ req[r].cmd \in {"deposit", "withdraw"}
                   /\ SettlementFailed(r)
                   /\ Finished(r)
                   /\ "failed" \in Range(statusLog[r])

\* The digits of a fraction without its trailing zeros.
RECURSIVE SignificantDigits(_)
SignificantDigits(f) ==
    IF f # <<>> /\ Last(f) = 0 THEN SignificantDigits(SubSeq(f, 1, Len(f) - 1)) ELSE f

\* The largest multiple of 0.00000001 not exceeding the decimal x.
Truncated8(x) == Dec(x.whole, SignificantDigits([i \in 1..8 |-> DigitAt(x.frac, i)]))

\* C22: for every finite non-negative x the text formatCoinAmount returns
\* reads as the largest multiple of 0.00000001 not exceeding x.
C22_TruncatesAtEighthDigit ==
    (codec.fn = "formatCoinAmount" /\ codec.arg.kind = "finite")
        => Number(codec.text) = Truncated8(codec.arg)

\* C23: formatCoinAmount returns no amount text for NaN and for Infinity.
C23_NonFiniteFails ==
    (codec.fn = "formatCoinAmount" /\ codec.arg.kind \in {"NaN", "Infinity"})
        => codec.text = <<>>

C26_FloorsToCent ==
    codec.fn = "truncateDollar" =>
        /\ codec.cents = (codec.fiat \div 10) * 10
        /\ codec.fiat % 10 = 0 => codec.cents = codec.fiat

\* C30: the amount text of the settlement request of an exchange of fiat
\* amount f reads as f * 0.00000001 cut at the eighth fraction digit; 10.00
\* is sent as "0.0000001".
C30_RequestCarriesEncodedAmount ==
    codec.fn = "exchange" =>
        /\ Number(codec.text) = Truncated8(CoinAmount(codec.fiat))
        /\ codec.fiat = 10000 => codec.text = <<"0", ".", "0", "0", "0", "0", "0", "0", "1">>

\* The step ends the drain of activation l: line 219 clears the flag.
DrainEnds(l) ==
    /\ isProcessing /\ ~isProcessing'
    /\ loop[l].pc # "idle" /\ loop'[l].pc = "idle"

\* C27: the drain that finds the FIFO empty after a job ends, clearing the
\* flag, without the delay of line 216 having been waited after that job.
C27_NoDelayAfterLastJob ==
    [][\A l \in LoopId : DrainEnds(l) => loop[l].item \notin Range(delayLog)]_vars

\* The step is a restart.
Restarted == boot'.n > boot.n

\* C28: a restart leaves an empty FIFO, a cleared flag and no activation of
\* process(); from then on no job whose row was 'pending' or 'processing' at
\* the restart is in the FIFO or held by the loop, and no settlement call is
\* issued for it.
C28_RestartForgetsJobs ==
    /\ [][Restarted => /\ queue' = <<>>
                       /\ ~isProcessing'
                       /\ \A l \in LoopId : loop'[l] = IdleLoop]_vars
    /\ [](\A r \in boot.jobs :
            /\ r \notin Range(queue)
            /\ \A l \in LoopId : loop[l].item # r
            /\ \A i \in DOMAIN calls : i > boot.calls => calls[i] # r)

\* A job was open at the restart, and a job submitted after it has got its
\* settlement call.
C28_Witness ==
    /\ boot.n = 1
    /\ boot.jobs # {}
    /\ Len(calls) > boot.calls
    /\ Last(calls) \notin boot.jobs

\* The step is the return of add() for request r.
AddReturned(r) == req[r].pc = "inserting" /\ req'[r].pc = "added"

\* The step starts an activation of process() that takes an item.
DrainStarted == \E l \in LoopId : loop[l].pc = "idle" /\ loop'[l].pc # "idle"

\* C29: add() returns as soon as its INSERT is done, whatever the state of
\* the job and without a settlement call returning in that step; the return
\* starts a drain exactly when no drain is running and the FIFO holds an
\* item.
C29_SubmitDoesNotWait ==
    /\ [](\A r \in Req : req[r].pc = "inserting" => ENABLED AddReturns(r))
    /\ [][\A r \in Req : AddReturned(r) =>
             /\ UNCHANGED <<calls, outcome, statusLog>>
             /\ DrainStarted <=> (LiveLoops = {} /\ queue # <<>>)]_vars


\* C31: isProcessing is set only while an activation of process() is alive:
\* in every state where the flag is set there is a loop that will reach its
\* emptiness test and clear the flag.
C31_FlagOnlyWhileDraining == isProcessing => LiveLoops # {}

\* C32: when the INSERT of add() fails, add() fails without any other effect:
\* the item is not in the FIFO and no settlement call is ever issued for it.
C32_FailedSubmitLeavesNothing ==
    \A r \in Req :
        req[r].pc = "addThrew" => r \notin Range(queue) /\ r \notin Range(calls)

\* Requests whose add() awaits its INSERT.
Submitting == {r \in Req : req[r].pc = "inserting"}

\* Requests whose continuation has thrown.
Threw == {r \in Req : cont[r] = "threw"}

\* C33: no wakeup is lost while the Job Store accepts every statement and no
\* continuation has thrown: whenever no add() is in progress and the FIFO
\* holds an item an activation of process() is alive, and the return of the
\* add() of an item still in the FIFO finds a drain alive or starts one.
C33_NoLostWakeup ==
    /\ []((Threw = {} /\ Submitting = {} /\ queue # <<>>) => LiveLoops # {})
    /\ [][\A r \in Req :
             (AddReturned(r) /\ Threw = {} /\ r \in Range(queue))
                 => (LiveLoops # {} \/ DrainStarted)]_vars

\* An item whose add() has returned waits in the FIFO while the loop is in
\* the delay after another item.
C33_Witness ==
    /\ Threw = {} /\ Submitting = {} /\ queue # <<>>
    /\ req[Head(queue)].pc = "added"
    /\ \E l \in LoopId : loop[l].pc = "delay"

\* The sum of the balances of the holders in S.
RECURSIVE TotalDollars(_)
TotalDollars(S) ==
    IF S = {} THEN 0
    ELSE LET h == CHOOSE x \in S : TRUE
         IN  DollarsOf(users[h]) + TotalDollars(S \ {h})

\* The sum of the amounts the /adm give requests in R have added.
RECURSIVE TotalGiven(_)
TotalGiven(R) ==
    IF R = {} THEN 0
    ELSE LET r == CHOOSE x \in R : TRUE
         IN  (IF req[r].cmd = "give" /\ req[r].pc = "done"
                THEN truncateDollar(req[r].amount) ELSE 0) + TotalGiven(R \ {r})

\* Only /money pay and /adm give requests have been made.
PayAndGiveOnly == \A r \in Req : req[r].cmd \in {"none", "pay", "give"}

\* Two pays of one payer, validated against the same balance, both carried
\* out.
BothPaid(r1, r2) ==
    /\ r1 # r2
    /\ req[r1].cmd = "pay" /\ req[r2].cmd = "pay"
    /\ req[r1].user = req[r2].user
    /\ req[r1].current = req[r2].current
    /\ req[r1].pc = "done" /\ req[r2].pc = "done"

\* C34: pay and give conserve money under every interleaving: when the
\* requests have finished the balances add up to the initial sum plus the
\* amounts given, and two pays of one payer validated against the same
\* balance do not move more than that balance together.
C34_PayAndGiveConserve ==
    PayAndGiveOnly =>
        /\ AllQuiet =>
              \E d \in InitialDollars : TotalDollars(Holders) = d + TotalGiven(Req)
        /\ \A r1, r2 \in Req :
              BothPaid(r1, r2) =>
                  truncateDollar(req[r1].amount) + truncateDollar(req[r2].amount)
                      <= req[r1].current

\* The payload of the item each command hands to add(): whose card pays
\* (fromCard) and who receives (toId, or toCard for the withdraw). "user" is
\* the member who ran the command, "targetUser" the member it names, "server"
\* the tenant's server card.
Payload(cmd) ==
    CASE cmd = "deposit"   -> [fromCard |-> "server",     to |-> "user"]
      [] cmd = "withdraw"  -> [fromCard |-> "user",       to |-> "server"]
      [] cmd = "payserver" -> [fromCard |-> "user",       to |-> "user"]
      [] cmd = "serverpay" -> [fromCard |-> "server",     to |-> "targetUser"]
      [] cmd = "fine"      -> [fromCard |-> "targetUser", to |-> "user"]
      [] OTHER             -> [fromCard |-> "-",          to |-> "-"]

\* C35: the item a payserver command submits moves coins from the paying
\* user's card to the tenant's server account, never to the paying user.
C35_PayserverPaysTheServer ==
    \A r \in Range(submitted) :
        req[r].cmd = "payserver" =>
            /\ Payload(req[r].cmd).fromCard = "user"
            /\ Payload(req[r].cmd).to = "server"

\* The step is a /setcard of holder h.
CardLinked(h) ==
    \E r \in Req : req[r].cmd = "none" /\ req'[r].cmd = "setcard" /\ req'[r].user = h

\* C36: /setcard leaves the balance of an existing account as it is and
\* creates a missing account with balance 0, and no step of any command
\* removes an account.
C36_SetcardKeepsBalance ==
    [][/\ \A h \in Holders :
             CardLinked(h) =>
                 /\ users'[h].present /\ users'[h].card
                 /\ users'[h].dollars = DollarsOf(users[h])
                 /\ \A g \in Holders \ {h} : users'[g] = users[g]
       /\ \A h \in Holders : users[h].present => users'[h].present]_vars

\* A card was linked for a holder without an account and for a holder with a
\* balance.
C36_Witness ==
    /\ \A r \in Req : req[r].cmd = "setcard"
    /\ \E h \in Holders : users[h].present /\ users[h].card /\ users[h].dollars = 0
    /\ \E h \in Holders : users[h].present /\ users[h].card /\ users[h].dollars > 0

====
